---- MODULE Spec2Model ----
(***************************************************************************)
(* Model of the deployer-server crate: the deploy / destroy HTTP handlers  *)
(* (api.rs), the deployment engine, its guards and the teardown path       *)
(* (deploy.rs) and the startup sweep of outstanding leases (main.rs).      *)
(*                                                                         *)
(* Option<T> is modelled as a set: None is {} and Some(x) is {x}.          *)
(* Strings built with format!() are sequences of '-'-separated tokens.     *)
(* Each await of the source is one step of the task that executes it.      *)
(***************************************************************************)
EXTENDS Integers, Sequences, FiniteSets, TLC

VARIABLES
    db,              \* committed rows of challenge_deployments: id -> row
    nextId,          \* the serial of challenge_deployments.id
    tasks,           \* tokio tasks alive in the process
    containers,      \* containers on the docker host: [name, owner]
    networks,        \* networks on the docker host: [name, owner]
    routes,          \* hosts registered in the dynamic router: [host, owner]
    now,             \* the wall clock
    faults,          \* remote / database calls that have failed so far
    restarts,        \* process restarts so far
    challenge_data,  \* State.challenge_data, slug -> Challenge
    hist,            \* history of the run (observation only)
    dir,             \* config.challenges_dir: file name -> content
    ctasks,          \* reload / load handlers in flight
    cathist          \* history of the catalog (observation only)

vars == <<db, nextId, tasks, containers, networks, routes, now,
          faults, restarts, challenge_data, hist, dir, ctasks, cathist>>

world == <<containers, networks, routes>>

\* the catalog, its directory and the handlers that replace it
catalog == <<challenge_data, dir, ctasks, cathist>>

\* the deployment side of the server
engine == <<db, nextId, tasks, world, now, faults, restarts, hist>>

(***************************************************************************)
(* Bounds of the model.                                                    *)
(***************************************************************************)
MaxRows == 2
MaxDestroyReqs == 2
MaxTime == 2
MaxFaults == 1
MaxRestarts == 1
MaxPairs == 1
MaxTasks == 2
MaxLoads == 1
MaxCatalogOps == 3
MaxSlugLen == 3

(***************************************************************************)
(* Option helpers.                                                         *)
(***************************************************************************)
None == {}
Some(x) == {x}
IsSome(o) == o # {}
Unwrap(o) == CHOOSE x \in o : TRUE

(***************************************************************************)
(* The catalog and the challenges / teams tables the engine joins against. *)
(***************************************************************************)
\* payload.lifetime.unwrap_or(60 * 10): ten minutes, in ticks of the model's
\* clock (one tick is five minutes)
DefaultLifetime == 2

\* a Challenge of challenge.rs, with the fields the server reads
Chall(id, strategy, expose, host, bump_seed, instance_lifetime) ==
    [id |-> id, strategy |-> strategy,
     container |-> Some([ct \in {"default"} |-> [expose |-> expose]]),
     host |-> host, bump_seed |-> bump_seed,
     instance_lifetime |-> instance_lifetime]

Http80 == [p \in {80} |-> "http"]

Catalog ==
    [s \in {<<"a">>, <<"b">>} |->
        IF s = <<"a">>
        THEN Chall(<<"a">>, "Static", Http80, None, 0, None)
        ELSE Chall(<<"b">>, "Instanced", Http80, None, 0, Some(1))]

\* the challenges table: id -> public_id; challenge 3 has no spec in the catalog
ChallengeIds == {1, 2, 3}
ChallengePublicId(cid) == IF cid = 1 THEN <<"a">> ELSE IF cid = 2 THEN <<"b">> ELSE <<"c">>
TeamPublicId(tid) == <<"t", tid>>
CaddyBase == <<"base">>

\* the (challenge_id, team_id) pairs the API sends
Pairs == {[challenge_id |-> 1, team_id |-> None],
          [challenge_id |-> 1, team_id |-> Some(1)],
          [challenge_id |-> 2, team_id |-> Some(1)],
          [challenge_id |-> 2, team_id |-> None],
          [challenge_id |-> 3, team_id |-> None]}

\* lifetime of the request: absent, or longer than any lifetime of the catalog
ReqLifetimes == {None, Some(3)}

Requests ==
    {[challenge_id |-> p.challenge_id, team_id |-> p.team_id, lifetime |-> None] :
        p \in Pairs}
    \cup {[challenge_id |-> 2, team_id |-> Some(1), lifetime |-> l] : l \in ReqLifetimes}

\* the catalogs the server may have loaded
Catalogs == {Catalog}

\* the text format!("{}") gives for an i32: its decimal digits, one token
IntToStr(n) == ToString(n)

\* a file holds the TOML text of a Challenge, or text toml::from_str rejects
\* (an empty file that File::create has just made, or garbage)
toml_to_string(c) == [toml |-> Some(c)]
Unparseable == [toml |-> None]
toml_from_str(text) == text.toml

\* the directory write_challenges_to_dir leaves when no key of the body has
\* a dot and the directory holds no other file: one {key}.toml per entry
WrittenDir(body) == [k \in DOMAIN body |-> toml_to_string(body[k])]

(***************************************************************************)
(* deploy.rs: names and addresses.                                         *)
(***************************************************************************)
calculate_container_name(chall_id, strategy, ct, team_id) ==
    IF strategy = "Static"
    THEN chall_id \o <<"container", ct>>
    ELSE chall_id \o <<"team", IntToStr(Unwrap(team_id)), "container", ct>>

calculate_network_name(chall_id, strategy, team_id) ==
    IF strategy = "Static"
    THEN chall_id \o <<"network">>
    ELSE chall_id \o <<"team", IntToStr(Unwrap(team_id)), "network">>

\* the digest is kept symbolic: the hashed text, i.e. its three fields
calculate_subdomain(chall_id, pub_team_id, port) ==
    chall_id \o <<[hash |-> <<chall_id,
                              IF IsSome(pub_team_id) THEN Unwrap(pub_team_id) ELSE <<>>,
                              port>>]>>

RouteHost(subdomain) == subdomain \o CaddyBase

\* host_keychains[chall_data.host.as_deref().unwrap_or("default")]
ResolvedHost(chall) == IF IsSome(chall.host) THEN Unwrap(chall.host) ELSE "default"

\* config.host_keychains: host id -> the base of its proxy
HostKeychains == [h \in {"default", "h2"} |->
                    [caddy |-> [base |-> IF h = "default" THEN CaddyBase ELSE <<"base2">>]]]

\* format!("{}.{}", subdomain, host_keychain.caddy.base)
RouteHostOn(host_keychain, subdomain) == subdomain \o host_keychain.caddy.base

\* the codes of the characters and of the container keys the model's names
\* are made of
CharCode(c) ==
    IF c = "a" THEN 1 ELSE IF c = "b" THEN 2 ELSE IF c = "c" THEN 3
    ELSE IF c = "d" THEN 4 ELSE IF c = "e" THEN 5 ELSE IF c = "A" THEN 6
    ELSE IF c = "app" THEN 8 ELSE IF c = "db" THEN 9
    ELSE 7

RECURSIVE TextCode(_)
TextCode(text) ==
    IF text = <<>> THEN 0 ELSE CharCode(Head(text)) + 3 * TextCode(Tail(text))

\* the first two bytes of SHA-256 over "{chall_id}/{ct}/{port},{bump}" read
\* as a little-endian u16: the digest is replaced by a 16-bit mix of the same
\* four fields
Digest16(chall_id, container_name, port, bump) ==
    ((TextCode(chall_id) + TextCode(<<container_name>>) + port) * 257
        + bump * 4099) % 65536

\* n.saturating_add(1025) on u16
\* n + 1025 in u16 arithmetic that wraps around
wrapping_static_tcp_port(chall_id, container_name, port, bump) ==
    (Digest16(chall_id, container_name, port, bump) + 1025) % 65536

calculate_static_tcp_port(chall_id, container_name, port, bump) ==
    LET n == Digest16(chall_id, container_name, port, bump)
    IN IF n + 1025 > 65535 THEN 65535 ELSE n + 1025


(***************************************************************************)
(* Rows of challenge_deployments and the tasks of the process.             *)
(***************************************************************************)
\* public_id (a random nanoid, the key of GET /deployment/{id}) and
\* created_at are never read by the engine and are left out of the row
NoRow == [id |-> 0, team_id |-> None, challenge_id |-> 0, deployed |-> FALSE,
          data |-> None, expired_at |-> None, destroyed_at |-> None]

\* INSERT INTO challenge_deployments (public_id, team_id, challenge_id)
InsertedRow(id, req) ==
    [id |-> id, team_id |-> req.team_id, challenge_id |-> req.challenge_id,
     deployed |-> FALSE, data |-> None, expired_at |-> None, destroyed_at |-> None]

\* WHERE team_id IS NOT DISTINCT FROM $1 AND challenge_id = $2 AND destroyed_at IS NULL
ActiveRows(rows, req) ==
    {i \in DOMAIN rows : /\ rows[i].team_id = req.team_id
                         /\ rows[i].challenge_id = req.challenge_id
                         /\ rows[i].destroyed_at = None}

NoReq == [challenge_id |-> 0, team_id |-> None, lifetime |-> None]

Task0 == [tid |-> 0, kind |-> "none", pc |-> "none", origin |-> "none",
          req |-> NoReq, row |-> NoRow, spec |-> None, todo |-> {},
          cur |-> "", ptodo |-> {}, curp |-> 0,
          guardC |-> <<>>, guardN |-> <<>>, guardCommitted |-> FALSE,
          caddyR |-> <<>>, caddyCommitted |-> FALSE,
          deploy_data |-> {}, txw |-> None, lifetime |-> 0, fireAt |-> 0]

TasksOf(k) == {t \in tasks : t.kind = k}

\* a row is locked while a transaction holds an uncommitted write to it
Locked(id) == \E t \in tasks : t.txw # None /\ t.row.id = id

Replace(t, t2) == (tasks \ {t}) \cup {t2}

Remove(db0, id) == [i \in DOMAIN db0 \ {id} |-> db0[i]]
Put(db0, id, r) == [i \in DOMAIN db0 \cup {id} |-> IF i = id THEN r ELSE db0[i]]

Hist0 == [failed |-> {}, cleaned |-> {}, done |-> {}, dreqs |-> 0]

Init ==
    /\ db = <<>>
    /\ nextId = 1
    /\ tasks = {}
    /\ containers = {}
    /\ networks = {}
    /\ routes = {}
    /\ now = 0
    /\ faults = 0
    /\ restarts = 0
    /\ challenge_data \in Catalogs
    /\ hist = Hist0
    /\ dir = WrittenDir([k \in {"a", "b"} |-> challenge_data[<<k>>]])
    /\ ctasks = {}
    /\ cathist = [ops |-> 0, failed |-> 0, whole |-> {challenge_data}]

\* a remote or database call fails
Fault == faults < MaxFaults /\ faults' = faults + 1
NoFault == UNCHANGED faults

(***************************************************************************)
(* api.rs deploy_challenge: SELECT the active row, then INSERT and commit. *)
(* The two statements are two awaits of one READ COMMITTED transaction.    *)
(***************************************************************************)
PairOf(x) == [challenge_id |-> x.challenge_id, team_id |-> x.team_id]
PairsInUse == {PairOf(db[i]) : i \in DOMAIN db}
                 \cup {PairOf(h.req) : h \in TasksOf("handler")}

DeployReqSelect(req) ==
    /\ nextId + Cardinality(TasksOf("handler")) <= MaxRows
    /\ Cardinality(PairsInUse \cup {PairOf(req)}) <= MaxPairs
    /\ Cardinality(tasks) < MaxTasks
    /\ IF ActiveRows(db, req) # {}
       THEN \* start_challenge_task is spawned, AlreadyDeployed is returned
            /\ UNCHANGED tasks
       ELSE /\ tasks' = tasks \cup {[Task0 EXCEPT
                                       !.tid = nextId + Cardinality(TasksOf("handler")),
                                       !.kind = "handler",
                                       !.pc = "insert",
                                       !.req = req]}
    /\ UNCHANGED <<db, nextId, world, now, faults, restarts, catalog, hist>>

NewDeployTask(tid, row, lifetime) ==
    [Task0 EXCEPT !.tid = tid, !.kind = "deploy", !.pc = "begin", !.row = row,
                  !.lifetime = lifetime,
                  \* DockerGuard::new and CaddyGuard::new
                  !.guardCommitted = FALSE, !.caddyCommitted = TRUE]

DeployReqInsert(h) ==
    /\ h.kind = "handler" /\ h.pc = "insert"
    /\ LET row == InsertedRow(nextId, h.req)
           lifetime == IF IsSome(h.req.lifetime) THEN Unwrap(h.req.lifetime)
                                                  ELSE DefaultLifetime
       IN /\ db' = Put(db, nextId, row)
          /\ tasks' = Replace(h, NewDeployTask(nextId, row, lifetime))
    /\ nextId' = nextId + 1
    /\ UNCHANGED <<world, now, faults, restarts, catalog, hist>>

(***************************************************************************)
(* deploy.rs: the guards.                                                  *)
(***************************************************************************)
\* Drop for DockerGuard / CaddyGuard: adrop is spawned and returns at once
\* when the guard is committed
DockerGuardDrop(t, tid) ==
    IF t.guardCommitted \/ (t.guardC = <<>> /\ t.guardN = <<>>)
    THEN {}
    ELSE {[Task0 EXCEPT !.tid = tid, !.kind = "cleanup", !.pc = "docker",
                        !.row = t.row, !.guardC = t.guardC, !.guardN = t.guardN]}

CaddyGuardDrop(t, tid) ==
    IF t.caddyCommitted \/ t.caddyR = <<>>
    THEN {}
    ELSE {[Task0 EXCEPT !.tid = tid, !.kind = "cleanup", !.pc = "caddy",
                        !.row = t.row, !.caddyR = t.caddyR]}

GuardsDrop(t) == DockerGuardDrop(t, t.row.id) \cup CaddyGuardDrop(t, t.row.id)

Front(q) == SubSeq(q, 1, Len(q) - 1)
Last(q) == q[Len(q)]

\* adrop with ? in place of .ok(): the first failed removal ends it
CleanupStepStopping(t) ==
    /\ t.kind = "cleanup"
    /\ LET dC == t.pc = "docker" /\ t.guardC # <<>>
           dN == t.pc = "docker" /\ t.guardC = <<>>
           t2 == IF dC THEN [t EXCEPT !.guardC = Front(@)]
                 ELSE IF dN THEN [t EXCEPT !.guardN = Front(@)]
                 ELSE [t EXCEPT !.caddyR = Front(@)]
           finished == t2.guardC = <<>> /\ t2.guardN = <<>> /\ t2.caddyR = <<>>
       IN /\ \/ /\ NoFault
                /\ containers' = IF dC
                                 THEN {c \in containers : c.name # Last(t.guardC)}
                                 ELSE containers
                /\ networks' = IF ~dC /\ dN
                               THEN {n \in networks : n.name # Last(t.guardN)}
                               ELSE networks
                /\ routes' = IF t.pc = "caddy"
                             THEN {r \in routes : r.host # Last(t.caddyR)}
                             ELSE routes
                /\ tasks' = IF finished THEN tasks \ {t} ELSE Replace(t, t2)
             \/ /\ Fault
                /\ UNCHANGED world
                /\ tasks' = tasks \ {t}
          /\ hist' = IF finished /\ t.pc = "docker"
                     THEN [hist EXCEPT !.cleaned = @ \cup {t.row.id}]
                     ELSE hist
    /\ UNCHANGED <<db, nextId, now, restarts, catalog>>

\* DockerGuard::adrop / CaddyGuard::adrop: one removal per await, newest
\* first, containers before networks; a failed call is swallowed by .ok()
CleanupStep(t) ==
    /\ t.kind = "cleanup"
    /\ LET dC == t.pc = "docker" /\ t.guardC # <<>>
           dN == t.pc = "docker" /\ t.guardC = <<>>
           t2 == IF dC THEN [t EXCEPT !.guardC = Front(@)]
                 ELSE IF dN THEN [t EXCEPT !.guardN = Front(@)]
                 ELSE [t EXCEPT !.caddyR = Front(@)]
           finished == t2.guardC = <<>> /\ t2.guardN = <<>> /\ t2.caddyR = <<>>
       IN /\ \/ /\ NoFault
                /\ containers' = IF dC
                                 THEN {c \in containers : c.name # Last(t.guardC)}
                                 ELSE containers
                /\ networks' = IF ~dC /\ dN
                               THEN {n \in networks : n.name # Last(t.guardN)}
                               ELSE networks
                /\ routes' = IF t.pc = "caddy"
                             THEN {r \in routes : r.host # Last(t.caddyR)}
                             ELSE routes
             \/ /\ Fault
                /\ UNCHANGED world
          /\ tasks' = IF finished THEN tasks \ {t} ELSE Replace(t, t2)
          /\ hist' = IF finished /\ t.pc = "docker"
                     THEN [hist EXCEPT !.cleaned = @ \cup {t.row.id}]
                     ELSE hist
    /\ UNCHANGED <<db, nextId, now, restarts, catalog>>

(***************************************************************************)
(* deploy.rs deploy_challenge: the engine, one step per await.             *)
(***************************************************************************)
SpecOf(t) == Unwrap(t.spec)
ContainersOf(spec) == Unwrap(spec.container)
CtName(t, ct) ==
    calculate_container_name(SpecOf(t).id, SpecOf(t).strategy, ct, t.row.team_id)
NetName(t) ==
    calculate_network_name(SpecOf(t).id, SpecOf(t).strategy, t.row.team_id)
PublicTeamId(row) ==
    IF IsSome(row.team_id) THEN Some(TeamPublicId(Unwrap(row.team_id))) ELSE None

\* 5. determine host mappings
\* the static port computed with the bump_seed of the catalog in force
MappingsOfCurrentCatalog(spec, row, ct) ==
    LET expose == ContainersOf(spec)[ct].expose
        cur == IF spec.id \in DOMAIN challenge_data THEN challenge_data[spec.id] ELSE spec
    IN {[port |-> p, type |-> expose[p],
         addr |-> IF expose[p] = "http"
                  THEN calculate_subdomain(spec.id, PublicTeamId(row), p)
                  ELSE IF spec.strategy = "Static"
                  THEN <<calculate_static_tcp_port(spec.id, ct, p, cur.bump_seed)>>
                  ELSE <<"unused_port", ct, p>>,
         base |-> HostKeychains[ResolvedHost(spec)].caddy.base] :
            p \in DOMAIN expose}

Mappings(spec, row, ct) ==
    LET expose == ContainersOf(spec)[ct].expose
    IN {[port |-> p, type |-> expose[p],
         addr |-> IF expose[p] = "http"
                  THEN calculate_subdomain(spec.id, PublicTeamId(row), p)
                  ELSE IF spec.strategy = "Static"
                  THEN <<calculate_static_tcp_port(spec.id, ct, p, spec.bump_seed)>>
                  \* get_unused_port(): the port the OS hands out, kept symbolic
                  ELSE <<"unused_port", ct, p>>,
         base |-> HostKeychains[ResolvedHost(spec)].caddy.base] :
            p \in DOMAIN expose}

HttpPorts(ms) == {m.port : m \in {x \in ms : x.type = "http"}}
MappingOf(ms, p) == CHOOSE m \in ms : m.port = p

\* an Err leaves deploy_challenge: the abort of deploy_challenge_task follows
Failed(t) == [t EXCEPT !.pc = "err"]

\* the loop over chall_containers: the next container, or the end of the loop
LoopNext(t) == [t EXCEPT !.pc = IF t.todo = {} THEN "finalize" ELSE "ct_remove"]

\* a DATABASE error inside deploy_challenge: the Err drops the guards, the
\* DELETE of deploy_challenge_task fails on the aborted transaction, its
\* unwrap panics and the transaction is rolled back
DeployDbError(t) ==
    /\ Fault
    /\ tasks' = (tasks \ {t}) \cup GuardsDrop(t)
    /\ hist' = [hist EXCEPT !.failed = @ \cup {t.row.id},
                            !.cleaned = IF DockerGuardDrop(t, 0) = {}
                                        THEN @ \cup {t.row.id} ELSE @]
    /\ UNCHANGED <<db, nextId, world, now, restarts, catalog>>

\* team_id.unwrap() in the names of an Instanced challenge
\* host_keychains[...] is the Index of a HashMap: it panics on a missing key
KeychainPanics(spec) == ResolvedHost(spec) \notin DOMAIN HostKeychains

NamePanics(spec, row) == spec.strategy = "Instanced" /\ row.team_id = None

\* 1.-4. resolve the slug, the team, the spec and the host
DeployResolve(t) ==
    /\ t.kind = "deploy" /\ t.pc = "begin"
    /\ \/ DeployDbError(t)
       \/ /\ NoFault
          /\ LET slug == ChallengePublicId(t.row.challenge_id)
             IN IF slug \notin DOMAIN challenge_data
                   \/ challenge_data[slug].container = None
                THEN /\ tasks' = Replace(t, Failed(t))
                     /\ UNCHANGED hist
                ELSE IF \/ KeychainPanics(challenge_data[slug])
                        \/ NamePanics(challenge_data[slug], t.row)
                THEN \* the index of host_keychains or calculate_network_name
                     \* panics: the task is gone and its transaction is
                     \* rolled back
                     /\ tasks' = tasks \ {t}
                     /\ hist' = [hist EXCEPT !.failed = @ \cup {t.row.id},
                                             !.cleaned = @ \cup {t.row.id}]
                ELSE /\ tasks' = Replace(t, [t EXCEPT
                                  !.pc = "net_inspect",
                                  !.spec = Some(challenge_data[slug]),
                                  !.todo = DOMAIN ContainersOf(challenge_data[slug])])
                     /\ UNCHANGED hist
          /\ UNCHANGED <<db, nextId, world, now, restarts, catalog>>

\* 5.2 chall_data.pull(&ctx).await? touches nothing the model holds: it runs
\* in the step of the network call before it
Pulled(t) == {LoopNext(t)}
PullFailed(t) == {Failed(t)}

\* inspect_network with the network that is found handed to the guard
DeployNetInspectRegistering(t) ==
    /\ t.kind = "deploy" /\ t.pc = "net_inspect"
    /\ IF \E n \in networks : n.name = NetName(t)
       THEN \/ NoFault /\ tasks' \in {Replace(t, t2) :
                              t2 \in Pulled([t EXCEPT !.guardN = Append(@, NetName(t))])}
            \/ Fault /\ tasks' \in {Replace(t, t2) :
                              t2 \in PullFailed([t EXCEPT !.guardN = Append(@, NetName(t))])}
       ELSE NoFault /\ tasks' = Replace(t, [t EXCEPT !.pc = "net_create"])
    /\ UNCHANGED <<db, nextId, world, now, restarts, catalog, hist>>

\* inspect_network(...).is_ok(); an existing network is reused and not
\* registered with the guard
DeployNetInspect(t) ==
    /\ t.kind = "deploy" /\ t.pc = "net_inspect"
    /\ IF \E n \in networks : n.name = NetName(t)
       THEN \/ NoFault /\ tasks' \in {Replace(t, t2) : t2 \in Pulled(t)}
            \/ Fault /\ tasks' \in {Replace(t, t2) : t2 \in PullFailed(t)}
       ELSE NoFault /\ tasks' = Replace(t, [t EXCEPT !.pc = "net_create"])
    /\ UNCHANGED <<db, nextId, world, now, restarts, catalog, hist>>

\* create_network(...).await?; _docker_guard.network(&network_name)
DeployNetCreate(t) ==
    /\ t.kind = "deploy" /\ t.pc = "net_create"
    /\ \/ /\ NoFault
          /\ ~ \E n \in networks : n.name = NetName(t)
          /\ networks' = networks \cup {[name |-> NetName(t), owner |-> t.row.id]}
          /\ tasks' \in {Replace(t, t2) :
                            t2 \in Pulled([t EXCEPT !.guardN = Append(@, NetName(t))])}
       \/ /\ Fault
          /\ ~ \E n \in networks : n.name = NetName(t)
          /\ networks' = networks \cup {[name |-> NetName(t), owner |-> t.row.id]}
          /\ tasks' \in {Replace(t, t2) :
                            t2 \in PullFailed([t EXCEPT !.guardN = Append(@, NetName(t))])}
       \/ /\ \/ Fault
             \/ NoFault /\ \E n \in networks : n.name = NetName(t)
          /\ tasks' = Replace(t, Failed(t))
          /\ UNCHANGED networks
    /\ UNCHANGED <<db, nextId, containers, routes, now, restarts,
                   catalog, hist>>

\* the loop going on to create_container with no force-remove before it
DeployCtKeep(t) ==
    /\ t.kind = "deploy" /\ t.pc = "ct_remove"
    /\ \E ct \in t.todo :
          tasks' = Replace(t, [t EXCEPT !.pc = "ct_create", !.cur = ct])
    /\ UNCHANGED <<db, nextId, world, now, faults, restarts, catalog, hist>>

\* 6. remove_container(name, force).await.ok() of a stale container
DeployCtRemove(t) ==
    /\ t.kind = "deploy" /\ t.pc = "ct_remove"
    /\ \E ct \in t.todo :
          /\ containers' = {c \in containers : c.name # CtName(t, ct)}
          /\ tasks' = Replace(t, [t EXCEPT !.pc = "ct_create", !.cur = ct])
    /\ UNCHANGED <<db, nextId, networks, routes, now, faults, restarts,
                   catalog, hist>>

\* the container of the loop is done: deploy_data.insert(ct, ...)
CtDone(t) ==
    LET ms == Mappings(SpecOf(t), t.row, t.cur)
        t2 == [t EXCEPT !.todo = @ \ {t.cur},
                        !.deploy_data = @ \cup {[ct |-> t.cur,
                                                 container_id |-> CtName(t, t.cur),
                                                 ports |-> ms]}]
    IN LoopNext(t2)

\* the engine going on to the next container without its routes
StartedWithoutRoutes(t) == CtDone(t)

\* the task after 7. start_container and 8. inspect_container succeeded
Started(t) ==
    LET http == HttpPorts(Mappings(SpecOf(t), t.row, t.cur))
    IN IF http = {} THEN CtDone(t)
       ELSE [t EXCEPT !.pc = "route_delete", !.ptodo = http]

\* create_container(...).await?; _docker_guard.container(&container_name)
DeployCtCreate(t) ==
    /\ t.kind = "deploy" /\ t.pc = "ct_create"
    /\ \/ /\ NoFault
          /\ ~ \E c \in containers : c.name = CtName(t, t.cur)
          /\ containers' = containers \cup {[name |-> CtName(t, t.cur),
                                            owner |-> t.row.id]}
          /\ tasks' = Replace(t, [t EXCEPT !.guardC = Append(@, CtName(t, t.cur)),
                                           !.pc = "ct_start"])
       \/ /\ \/ Fault
             \/ NoFault /\ \E c \in containers : c.name = CtName(t, t.cur)
          /\ tasks' = Replace(t, Failed(t))
          /\ UNCHANGED containers
    /\ UNCHANGED <<db, nextId, networks, routes, now, restarts,
                   catalog, hist>>

\* start_container(...).await? and inspect_container(...).await?: both fail
\* when the container is no longer there
DeployCtStart(t) ==
    /\ t.kind = "deploy" /\ t.pc = "ct_start"
    /\ \/ /\ NoFault
          /\ tasks' = Replace(t, IF \E c \in containers : c.name = CtName(t, t.cur)
                                 THEN Started(t) ELSE Failed(t))
       \/ /\ Fault
          /\ tasks' = Replace(t, Failed(t))
    /\ UNCHANGED <<db, nextId, world, now, restarts, catalog, hist>>

HostOf(t, p) ==
    RouteHostOn(HostKeychains[ResolvedHost(SpecOf(t))],
                MappingOf(Mappings(SpecOf(t), t.row, t.cur), p).addr)

\* 9. POST /dynamic-router/delete for the host of one http mapping
DeployRouteDelete(t) ==
    /\ t.kind = "deploy" /\ t.pc = "route_delete"
    /\ \/ /\ NoFault
          /\ \E p \in t.ptodo :
                /\ routes' = {r \in routes : r.host # HostOf(t, p)}
                /\ tasks' = Replace(t, [t EXCEPT !.pc = "route_add", !.curp = p])
       \/ Fault /\ tasks' = Replace(t, Failed(t)) /\ UNCHANGED routes
    /\ UNCHANGED <<db, nextId, containers, networks, now, restarts,
                   catalog, hist>>

\* POST /dynamic-router/add; _caddy_guard.route(&host)
DeployRouteAdd(t) ==
    /\ t.kind = "deploy" /\ t.pc = "route_add"
    /\ \/ /\ NoFault
          /\ routes' = {r \in routes : r.host # HostOf(t, t.curp)}
                          \cup {[host |-> HostOf(t, t.curp), owner |-> t.row.id]}
          /\ LET t2 == [t EXCEPT !.caddyR = Append(@, HostOf(t, t.curp)),
                                 !.ptodo = @ \ {t.curp}]
             IN tasks' = Replace(t, IF t2.ptodo = {} THEN CtDone(t2)
                                    ELSE [t2 EXCEPT !.pc = "route_delete"])
       \/ Fault /\ tasks' = Replace(t, Failed(t)) /\ UNCHANGED routes
    /\ UNCHANGED <<db, nextId, containers, networks, now, restarts,
                   catalog, hist>>

\* the lease taken from the request alone, the spec's lifetime ignored
ExpirationTimeOfRequest(spec, default_container_lifetime, t) ==
    IF spec.strategy = "Static" THEN None ELSE Some(t + default_container_lifetime)

\* 10. the lease: instance_lifetime, else the lifetime of the request
ExpirationTime(spec, default_container_lifetime, t) ==
    LET container_lifetime == IF IsSome(spec.instance_lifetime)
                              THEN Unwrap(spec.instance_lifetime)
                              ELSE default_container_lifetime
    IN IF spec.strategy = "Static" THEN None ELSE Some(t + container_lifetime)

\* the finalize UPDATE without its data column
FinalizedRowWithoutData(row, data, expired_at) ==
    [row EXCEPT !.deployed = TRUE, !.expired_at = expired_at]

\* 11. UPDATE ... SET deployed = TRUE, data = $2, expired_at = $3
FinalizedRow(row, data, expired_at) ==
    [row EXCEPT !.deployed = TRUE, !.data = Some(data), !.expired_at = expired_at]

\* a task that sleeps and then runs destroy_challenge_task on its snapshot
TeardownTask(tid, origin, row, fireAt) ==
    [Task0 EXCEPT !.tid = tid, !.kind = "destroy", !.pc = "sleep",
                  !.origin = origin, !.row = row, !.fireAt = fireAt]

\* 12. the reaper task of an Instanced deployment, spawned inside the
\* transaction with the row as the transaction sees it
\* the spawned task without tokio::time::sleep(dur)
LeaseTasksNotSleeping(tid, row) ==
    IF IsSome(row.expired_at)
    THEN {TeardownTask(tid, "lease", row, 0)}
    ELSE {}

LeaseTasks(tid, row) ==
    IF IsSome(row.expired_at)
    THEN {TeardownTask(tid, "lease", row, Unwrap(row.expired_at))}
    ELSE {}

DeployFinalize(t) ==
    /\ t.kind = "deploy" /\ t.pc = "finalize"
    /\ \/ DeployDbError(t)
       \/ /\ NoFault
          /\ t.row.id \in DOMAIN db
          /\ ~ Locked(t.row.id)
          /\ LET row == FinalizedRow(db[t.row.id], t.deploy_data,
                                     ExpirationTime(SpecOf(t), t.lifetime, now))
             IN tasks' = Replace(t, [t EXCEPT !.pc = "commit", !.txw = Some(row),
                                              !.guardCommitted = TRUE,
                                              !.caddyCommitted = TRUE])
                           \cup LeaseTasks(row.id, row)
          /\ UNCHANGED <<db, nextId, world, now, restarts, catalog, hist>>

\* deploy_challenge_task after Ok: tx.commit().await.unwrap()
DeployCommit(t) ==
    /\ t.kind = "deploy" /\ t.pc = "commit"
    /\ tasks' = tasks \ {t}
    /\ \/ /\ NoFault
          /\ db' = Put(db, t.row.id, Unwrap(t.txw))
          /\ hist' = [hist EXCEPT !.done = @ \cup {t.row.id}]
       \/ /\ Fault
          /\ UNCHANGED <<db, hist>>
    /\ UNCHANGED <<nextId, world, now, restarts, catalog>>

\* deploy_challenge_task after Err: the guards are dropped with the engine's
\* frame, then DELETE FROM challenge_deployments WHERE id = $1 and commit
DeployAbort(t) ==
    /\ t.kind = "deploy" /\ t.pc = "err"
    /\ ~ Locked(t.row.id)
    /\ tasks' = (tasks \ {t}) \cup GuardsDrop(t)
    /\ db' = IF t.row.id \in DOMAIN db THEN Remove(db, t.row.id) ELSE db
    /\ hist' = [hist EXCEPT !.failed = @ \cup {t.row.id},
                            !.cleaned = IF DockerGuardDrop(t, 0) = {}
                                        THEN @ \cup {t.row.id} ELSE @]
    /\ UNCHANGED <<nextId, world, now, faults, restarts, catalog>>

(***************************************************************************)
(* api.rs destroy_challenge: SELECT the active row of the pair on the pool *)
(* and spawn destroy_challenge_task with the row that was read.            *)
(***************************************************************************)
DestroyReq(req) ==
    /\ hist.dreqs < MaxDestroyReqs
    /\ Cardinality(tasks) < MaxTasks
    /\ \/ /\ ActiveRows(db, req) = {}
          /\ UNCHANGED <<tasks, hist>>
       \/ \E i \in ActiveRows(db, req) :
             /\ tasks' = tasks \cup {TeardownTask(hist.dreqs + 1, "request", db[i], 0)}
             /\ hist' = [hist EXCEPT !.dreqs = @ + 1]
    /\ UNCHANGED <<db, nextId, world, now, faults, restarts, catalog>>

(***************************************************************************)
(* deploy.rs destroy_challenge / destroy_challenge_task.                   *)
(***************************************************************************)
\* the teardown UPDATE without data = NULL
MarkDestroyedKeepingData(row, t) == [row EXCEPT !.destroyed_at = Some(t)]

\* UPDATE ... SET data = NULL, destroyed_at = NOW()
MarkDestroyed(row, t) == [row EXCEPT !.data = None, !.destroyed_at = Some(t)]

\* the checks on the ChallengeDeployment the task was given
Rejected(chall) == IsSome(chall.destroyed_at) \/ ~ chall.deployed

DataOf(chall, ct) == {d \in Unwrap(chall.data) : d.ct = ct}

\* the next container of the loop over chall_containers, or its end
TdNext(t) ==
    IF t.todo = {}
    THEN {[t EXCEPT !.pc = "td_net"]}
    ELSE {[t EXCEPT !.cur = ct,
                    !.ptodo = UNION {HttpPorts(d.ports) : d \in DataOf(t.row, ct)},
                    !.pc = IF UNION {HttpPorts(d.ports) : d \in DataOf(t.row, ct)} = {}
                           THEN "td_rm" ELSE "td_route"] : ct \in t.todo}

\* the checks, the UPDATE and the lookup of the spec
DestroyBegin(t) ==
    /\ t.kind = "destroy" /\ t.pc = "sleep"
    /\ now >= t.fireAt
    /\ IF Rejected(t.row)
       THEN /\ tasks' = tasks \ {t}
            /\ NoFault
       ELSE \/ /\ Fault
               /\ tasks' = tasks \ {t}
            \/ /\ NoFault
               /\ ~ Locked(t.row.id)
               /\ LET slug == ChallengePublicId(t.row.challenge_id)
                      t1 == [t EXCEPT !.txw = IF t.row.id \in DOMAIN db
                                              THEN Some(MarkDestroyed(db[t.row.id], now))
                                              ELSE Some(NoRow)]
                  IN IF \/ t.row.data = None
                        \/ slug \notin DOMAIN challenge_data
                        \/ challenge_data[slug].container = None
                     THEN tasks' = Replace(t, [t1 EXCEPT !.pc = "commit"])
                     ELSE IF KeychainPanics(challenge_data[slug])
                     THEN \* the task is gone, its UPDATE is rolled back
                          tasks' = tasks \ {t}
                     ELSE \E t2 \in TdNext([t1 EXCEPT
                                  !.spec = Some(challenge_data[slug]),
                                  !.todo = DOMAIN ContainersOf(challenge_data[slug])]) :
                             tasks' = Replace(t, t2)
    /\ UNCHANGED <<db, nextId, world, now, restarts, catalog, hist>>

TdHost(t, p) ==
    RouteHostOn(HostKeychains[ResolvedHost(SpecOf(t))],
                MappingOf(UNION {d.ports : d \in DataOf(t.row, t.cur)}, p).addr)

\* POST /dynamic-router/delete (.await?): an error leaves destroy_challenge
\* and destroy_challenge_task does not commit
DestroyRouteDelete(t) ==
    /\ t.kind = "destroy" /\ t.pc = "td_route"
    /\ \/ /\ NoFault
          /\ \E p \in t.ptodo :
                /\ routes' = {r \in routes : r.host # TdHost(t, p)}
                /\ tasks' = Replace(t, [t EXCEPT !.ptodo = @ \ {p},
                                                 !.pc = IF t.ptodo = {p} THEN "td_rm"
                                                        ELSE "td_route"])
       \/ /\ Fault
          /\ tasks' = tasks \ {t}
          /\ UNCHANGED routes
    /\ UNCHANGED <<db, nextId, containers, networks, now, restarts,
                   catalog, hist>>

\* remove_container(name, force).await.ok()
DestroyCtRemove(t) ==
    /\ t.kind = "destroy" /\ t.pc = "td_rm"
    /\ \/ /\ NoFault
          /\ containers' = {c \in containers : c.name # CtName(t, t.cur)}
       \/ /\ Fault
          /\ UNCHANGED containers
    /\ \E t2 \in TdNext([t EXCEPT !.todo = @ \ {t.cur}]) : tasks' = Replace(t, t2)
    /\ UNCHANGED <<db, nextId, networks, routes, now, restarts,
                   catalog, hist>>

\* remove_network(name).await? in place of .await.ok(): an error leaves
\* destroy_challenge and nothing is committed
DestroyNetworkPropagating(t) ==
    /\ t.kind = "destroy" /\ t.pc = "td_net"
    /\ \/ /\ NoFault
          /\ networks' = {n \in networks : n.name # NetName(t)}
          /\ tasks' = Replace(t, [t EXCEPT !.pc = "commit"])
       \/ /\ Fault
          /\ UNCHANGED networks
          /\ tasks' = tasks \ {t}
    /\ UNCHANGED <<db, nextId, containers, routes, now, restarts,
                   catalog, hist>>

\* remove_network(name).await.ok()
DestroyNetwork(t) ==
    /\ t.kind = "destroy" /\ t.pc = "td_net"
    /\ \/ /\ NoFault
          /\ networks' = {n \in networks : n.name # NetName(t)}
       \/ /\ Fault
          /\ UNCHANGED networks
    /\ tasks' = Replace(t, [t EXCEPT !.pc = "commit"])
    /\ UNCHANGED <<db, nextId, containers, routes, now, restarts,
                   catalog, hist>>

\* a teardown that ends its row with DELETE in place of the UPDATE
DestroyCommitDeleting(t) ==
    /\ t.kind = "destroy" /\ t.pc = "commit"
    /\ tasks' = tasks \ {t}
    /\ db' = IF t.row.id \in DOMAIN db THEN Remove(db, t.row.id) ELSE db
    /\ UNCHANGED <<nextId, world, now, faults, restarts, catalog, hist>>

\* destroy_challenge_task after Ok: tx.commit().await.unwrap()
DestroyCommit(t) ==
    /\ t.kind = "destroy" /\ t.pc = "commit"
    /\ tasks' = tasks \ {t}
    /\ db' = IF Unwrap(t.txw) = NoRow THEN db ELSE Put(db, t.row.id, Unwrap(t.txw))
    /\ UNCHANGED <<nextId, world, now, faults, restarts, catalog, hist>>

(***************************************************************************)
(* config.rs: the catalog on disk and load_challenges_from_dir.            *)
(***************************************************************************)
\* glob yields the paths of a directory in alphabetical order
FileOrder == <<"A", "a", "b", "c", "d", "e">>

\* challenge.rs is_valid_id over the characters of the model
Uppercase == {"A"}
Alphanumeric == {"a", "b", "c", "d", "e", "A"}
is_valid_id(id) ==
    \A i \in 1..Len(id) :
        (id[i] \notin Uppercase /\ id[i] \in Alphanumeric) \/ id[i] = "-"

\* the (container, port) Tcp exposures of a Static challenge
StaticTcpExposures(chall) ==
    IF chall.strategy = "Static" /\ IsSome(chall.container)
    THEN {e \in UNION {{[ct |-> ct, p |-> p] :
                           p \in DOMAIN Unwrap(chall.container)[ct].expose} :
                       ct \in DOMAIN Unwrap(chall.container)} :
             Unwrap(chall.container)[e.ct].expose[e.p] = "tcp"}
    ELSE {}

\* the key of used_ports an exposure asks for: chall.host as written, calc_p
UsedPortKey(chall, e) ==
    <<chall.host, calculate_static_tcp_port(chall.id, e.ct, e.p, chall.bump_seed)>>

\* the exposures of chall that find their port taken: by an earlier challenge
\* or by another exposure of chall itself
Taken(chall, used_ports) ==
    {e \in StaticTcpExposures(chall) :
        \/ UsedPortKey(chall, e) \in DOMAIN used_ports
        \/ \E f \in StaticTcpExposures(chall) :
              f # e /\ UsedPortKey(chall, f) = UsedPortKey(chall, e)}

LoadOk(m) == [ok |-> TRUE, m |-> m, err |-> "", slugs |-> {}]
LoadErr(err, slugs) == [ok |-> FALSE, m |-> <<>>, err |-> err, slugs |-> slugs]

\* the body of the loop of load_challenges_from_dir from the i-th path on;
\* m is the map so far, used_ports is (host, port) -> chall id
RECURSIVE LoadFrom(_, _, _, _)
LoadFrom(d, i, m, used_ports) ==
    IF i > Len(FileOrder) THEN LoadOk(m)
    ELSE IF FileOrder[i] \notin DOMAIN d THEN LoadFrom(d, i + 1, m, used_ports)
    ELSE LET parsed == toml_from_str(d[FileOrder[i]])
         IN IF parsed = None THEN LoadErr("toml", {})
            ELSE LET chall == Unwrap(parsed)
                     taken == Taken(chall, used_ports)
                     keys == {UsedPortKey(chall, e) : e \in StaticTcpExposures(chall)}
                 IN IF chall.id \in DOMAIN m
                    THEN LoadErr("Duplicate challenge", {chall.id})
                    ELSE IF taken # {}
                    THEN \* the message names chall.id and the holder of the port
                         LET e == CHOOSE x \in taken : TRUE
                             k == UsedPortKey(chall, e)
                         IN LoadErr("port",
                                    {chall.id, IF k \in DOMAIN used_ports
                                               THEN used_ports[k] ELSE chall.id})
                    ELSE LoadFrom(d, i + 1,
                                  [s \in DOMAIN m \cup {chall.id} |->
                                      IF s = chall.id THEN chall ELSE m[s]],
                                  [k \in DOMAIN used_ports \cup keys |->
                                      IF k \in keys THEN chall.id ELSE used_ports[k]])

load_challenges_from_dir(d) == LoadFrom(d, 1, <<>>, <<>>)

(***************************************************************************)
(* api.rs: POST /challenges/load and POST /challenges/reload.              *)
(***************************************************************************)
\* bodies of POST /challenges/load: key -> Challenge
Tcp(p) == [q \in {p} |-> "tcp"]

BodyCatalog == [k \in {"a", "b"} |-> Catalog[<<k>>]]
BodyLifetime == [k \in {"b"} |-> Chall(<<"b">>, "Instanced", Http80, None, 0, None)]
BodyCollision ==
    [k \in {"c", "e"} |->
        IF k = "c" THEN Chall(<<"c">>, "Static", Tcp(3), None, 0, None)
        ELSE Chall(<<"e">>, "Static", Tcp(1), None, 0, None)]
BodyTwoHostNames ==
    [k \in {"c", "d"} |->
        IF k = "c" THEN Chall(<<"c">>, "Static", Tcp(3), None, 0, None)
        ELSE Chall(<<"d">>, "Static", Tcp(2), Some("default"), 0, None)]
BodyDuplicate == [k \in {"a", "b"} |-> Catalog[<<"a">>]]
BodyUpper == [k \in {"A"} |-> Chall(<<"A">>, "Static", Http80, None, 0, None)]

Bodies == {BodyCatalog, BodyLifetime, BodyCollision, BodyTwoHostNames,
           BodyDuplicate, BodyUpper}

\* the bodies sent while deployments are running
EngineBodies == {BodyLifetime}

CTask0 == [kind |-> "none", pc |-> "none", loaded |-> LoadOk(<<>>),
           body |-> <<>>, rm |-> {}, todo |-> {}, cur |-> ""]

\* the paths that glob("*.toml") yields, by their stems
GlobToml(d) == {f \in DOMAIN d : \E i \in 1..Len(FileOrder) : FileOrder[i] = f}

\* a file of the directory that is not a *.toml file
OtherFile == [toml |-> None, other |-> TRUE]

\* every entry of the model's directories is a regular file
is_file(d, f) == f \in DOMAIN d

\* the stem of dir.join(id).with_extension("toml"): with_extension replaces
\* the extension that the key has already
with_extension_toml(id) ==
    IF id \in {"a.x", "a.y"} THEN "a" ELSE id

\* the write half of challenge_data (a tokio RwLock) is held
WriteLocked == \E t \in ctasks : t.kind = "load"

\* reload_challenges up to its await: load_challenges_from_dir runs before
\* the lock is asked for; an Err leaves the handler at once
ReloadScan ==
    /\ cathist.ops < MaxCatalogOps
    /\ LET res == load_challenges_from_dir(dir)
       IN IF res.ok
          THEN /\ ctasks' = ctasks \cup {[CTask0 EXCEPT !.kind = "reload",
                                                        !.pc = "lock",
                                                        !.loaded = res]}
               /\ cathist' = [cathist EXCEPT !.ops = @ + 1]
          ELSE /\ UNCHANGED ctasks
               /\ cathist' = [cathist EXCEPT !.ops = @ + 1, !.failed = @ + 1]
    /\ UNCHANGED <<challenge_data, dir, engine>>

\* challenge_data.write().await, then std::mem::swap
ReloadSwap(t) ==
    /\ t.kind = "reload" /\ t.pc = "lock"
    /\ ~ WriteLocked
    /\ challenge_data' = t.loaded.m
    /\ ctasks' = ctasks \ {t}
    /\ UNCHANGED <<dir, cathist, engine>>

\* load_challenges: challenge_data.write().await, and the glob of
\* write_challenges_to_dir
LoadLock(body) ==
    /\ cathist.ops < MaxCatalogOps
    /\ ~ WriteLocked
    /\ ctasks' = ctasks \cup {[CTask0 EXCEPT !.kind = "load",
                                             !.pc = IF GlobToml(dir) = {} THEN "create"
                                                    ELSE "remove",
                                             !.body = body,
                                             !.todo = DOMAIN body,
                                             !.rm = GlobToml(dir)]}
    /\ cathist' = [cathist EXCEPT !.ops = @ + 1]
    /\ UNCHANGED <<challenge_data, dir, engine>>

\* std::fs::remove_file of the next path of the glob
LoadRemove(t) ==
    /\ t.kind = "load" /\ t.pc = "remove"
    /\ LET f == CHOOSE x \in t.rm :
                   \A i, j \in 1..Len(FileOrder) :
                       (FileOrder[i] = x /\ FileOrder[j] \in t.rm) => i <= j
       IN /\ dir' = IF is_file(dir, f) THEN [k \in DOMAIN dir \ {f} |-> dir[k]]
                    ELSE dir
          /\ ctasks' = (ctasks \ {t}) \cup
                          {[t EXCEPT !.rm = @ \ {f},
                                     !.pc = IF t.rm = {f} THEN "create" ELSE "remove"]}
    /\ UNCHANGED <<challenge_data, cathist, engine>>

\* the entries of the body not yet written, in the order HashMap yields them
Unwritten(t) == t.todo

\* File::create for the next entry of the body
LoadCreate(t) ==
    /\ t.kind = "load" /\ t.pc = "create"
    /\ \E k \in Unwritten(t) :
          /\ dir' = [f \in DOMAIN dir \cup {with_extension_toml(k)} |->
                        IF f = with_extension_toml(k) THEN Unparseable ELSE dir[f]]
          /\ ctasks' = (ctasks \ {t}) \cup {[t EXCEPT !.pc = "write", !.cur = k,
                                                       !.todo = @ \ {k}]}
    /\ UNCHANGED <<challenge_data, cathist, engine>>

\* write!(file, "{}", toml::to_string(&c)?)
LoadWrite(t) ==
    /\ t.kind = "load" /\ t.pc = "write"
    /\ dir' = [dir EXCEPT ![with_extension_toml(t.cur)] = toml_to_string(t.body[t.cur])]
    /\ ctasks' = (ctasks \ {t}) \cup
                    {[t EXCEPT !.pc = IF Unwritten(t) = {} THEN "finish" ELSE "create"]}
    /\ UNCHANGED <<challenge_data, cathist, engine>>

\* load_challenges with the swap ahead of the check of the result
LoadFinishSwapFirst(t) ==
    /\ t.kind = "load" /\ t.pc = "finish"
    /\ LET res == load_challenges_from_dir(dir)
       IN /\ challenge_data' = res.m
          /\ cathist' = IF res.ok THEN [cathist EXCEPT !.whole = @ \cup {res.m}]
                        ELSE [cathist EXCEPT !.failed = @ + 1]
    /\ ctasks' = ctasks \ {t}
    /\ UNCHANGED <<dir, engine>>

\* load_challenges_from_dir(...)? and std::mem::swap; the guard is dropped
LoadFinish(t) ==
    /\ t.kind = "load" /\ t.pc = "finish"
    /\ LET res == load_challenges_from_dir(dir)
       IN IF res.ok
          THEN /\ challenge_data' = res.m
               /\ cathist' = [cathist EXCEPT !.whole = @ \cup {res.m}]
          ELSE /\ UNCHANGED challenge_data
               /\ cathist' = [cathist EXCEPT !.failed = @ + 1]
    /\ ctasks' = ctasks \ {t}
    /\ UNCHANGED <<dir, engine>>

\* load_challenges as the deployment tasks see it: they wait for the read
\* half of the lock from the first write to the swap
LoadChallenges(body) ==
    /\ cathist.ops < MaxLoads
    /\ dir' = WrittenDir(body)
    /\ LET res == load_challenges_from_dir(WrittenDir(body))
       IN IF res.ok
          THEN /\ challenge_data' = res.m
               /\ cathist' = [cathist EXCEPT !.ops = @ + 1, !.whole = @ \cup {res.m}]
          ELSE /\ UNCHANGED challenge_data
               /\ cathist' = [cathist EXCEPT !.ops = @ + 1, !.failed = @ + 1]
    /\ UNCHANGED <<ctasks, engine>>

CatalogInit == Init

CatalogNext ==
    \/ ReloadScan
    \/ \E t \in ctasks : ReloadSwap(t)
    \/ \E body \in Bodies : LoadLock(body)
    \/ \E t \in ctasks : LoadRemove(t)
    \/ \E t \in ctasks : LoadCreate(t)
    \/ \E t \in ctasks : LoadWrite(t)
    \/ \E t \in ctasks : LoadFinish(t)

\* the catalog handlers alone, with no deployment running
CatalogSpec == CatalogInit /\ [][CatalogNext]_vars

\* two entries whose keys differ in their extension only
BodyDotted ==
    [k \in {"a.x", "a.y"} |-> IF k = "a.x" THEN Catalog[<<"a">>] ELSE Catalog[<<"b">>]]

WriteBodies == {BodyCatalog, BodyUpper, BodyDotted}

\* the catalog directory with a file that is not a challenge
WriteInit ==
    /\ db = <<>>
    /\ nextId = 1
    /\ tasks = {}
    /\ containers = {}
    /\ networks = {}
    /\ routes = {}
    /\ now = 0
    /\ faults = 0
    /\ restarts = 0
    /\ challenge_data = Catalog
    /\ hist = Hist0
    /\ dir = [f \in {"a", "b", "notes.txt"} |->
                IF f = "notes.txt" THEN OtherFile
                ELSE toml_to_string(challenge_data[<<f>>])]
    /\ ctasks = {}
    /\ cathist = [ops |-> 0, failed |-> 0, whole |-> {challenge_data}]

WriteNext ==
    \/ \E body \in WriteBodies : LoadLock(body)
    \/ \E t \in ctasks : LoadRemove(t)
    \/ \E t \in ctasks : LoadCreate(t)
    \/ \E t \in ctasks : LoadWrite(t)
    \/ \E t \in ctasks : LoadFinish(t)

\* load_challenges requests alone, one after the other
WriteSpec == WriteInit /\ [][WriteNext]_vars

(***************************************************************************)
(* main.rs: the process dies and is started again; the startup sweep.      *)
(***************************************************************************)
\* WHERE destroyed_at IS NULL AND expired_at IS NOT NULL
InheritedContainers(rows) ==
    {i \in DOMAIN rows : rows[i].destroyed_at = None /\ rows[i].expired_at # None}

Max(a, b) == IF a >= b THEN a ELSE b

\* the sleep without .max(TimeDelta::zero())
SweepFireAtUnclamped(row, t) == Unwrap(row.expired_at)

\* expired_at - now, clamped at zero, slept from now
SweepFireAt(row, t) == t + Max(Unwrap(row.expired_at) - t, 0)

Restart ==
    /\ restarts < MaxRestarts
    /\ restarts' = restarts + 1
    /\ tasks' = {TeardownTask(i, "sweep", db[i], SweepFireAt(db[i], now)) :
                    i \in InheritedContainers(db)}
    /\ UNCHANGED <<db, nextId, world, now, faults, catalog, hist>>

Tick ==
    /\ now < MaxTime
    /\ now' = now + 1
    /\ UNCHANGED <<db, nextId, tasks, world, faults, restarts,
                   catalog, hist>>

Next ==
    \/ \E req \in Requests : DeployReqSelect(req)
    \/ \E t \in tasks : DeployReqInsert(t)
    \/ \E t \in tasks : DeployResolve(t)
    \/ \E t \in tasks : DeployNetInspect(t)
    \/ \E t \in tasks : DeployNetCreate(t)
    \/ \E t \in tasks : DeployCtRemove(t)
    \/ \E t \in tasks : DeployCtCreate(t)
    \/ \E t \in tasks : DeployCtStart(t)
    \/ \E t \in tasks : DeployRouteDelete(t)
    \/ \E t \in tasks : DeployRouteAdd(t)
    \/ \E t \in tasks : DeployFinalize(t)
    \/ \E t \in tasks : DeployCommit(t)
    \/ \E t \in tasks : DeployAbort(t)
    \/ \E t \in tasks : CleanupStep(t)
    \/ \E req \in Requests : DestroyReq(req)
    \/ \E t \in tasks : DestroyBegin(t)
    \/ \E t \in tasks : DestroyRouteDelete(t)
    \/ \E t \in tasks : DestroyCtRemove(t)
    \/ \E t \in tasks : DestroyNetwork(t)
    \/ \E t \in tasks : DestroyCommit(t)
    \/ \E body \in EngineBodies : LoadChallenges(body)
    \/ Restart
    \/ Tick

Spec == Init /\ [][Next]_vars

(***************************************************************************)
(* deploy.rs ChallengeDeployment::sanitize and the JSON of a response.     *)
(***************************************************************************)
\* "redacted-xxxxx"
Sentinel == <<"redacted", "xxxxx">>

\* a row returned as it is
sanitizeNothing(row) == row

\* container_id of every entry of data is overwritten, ..v and ..self keep
\* the rest
sanitize(row) ==
    [row EXCEPT !.data = IF row.data = None THEN None
                         ELSE Some({[d EXCEPT !.container_id = Sentinel] :
                                       d \in Unwrap(row.data)})]

\* Serialize for ChallengeDeployment: id, team_id and challenge_id are
\* skip_serializing
Serialize(row) ==
    [deployed |-> row.deployed, data |-> row.data,
     expired_at |-> row.expired_at, destroyed_at |-> row.destroyed_at]

\* what deploy_challenge (api.rs) and get_challenge answer for a row
Response(row) == Serialize(sanitize(row))

(***************************************************************************)
(* main.rs: graceful shutdown. ctrl-c cancels the token, axum::serve ends   *)
(* when the requests in flight are answered, then tt.close() and           *)
(* tt.wait().await; when main returns the runtime is dropped with every    *)
(* task that is still on it.                                               *)
(***************************************************************************)
\* the tasks spawned on state.tasks (the TaskTracker) and the handlers serve
\* waits for; the lease timer, the sweep and the guards use tokio::spawn
Tracked(t) ==
    \/ t.kind \in {"handler", "deploy"}
    \/ t.kind = "destroy" /\ t.origin = "request"

MainTask(pc) == [Task0 EXCEPT !.kind = "main", !.pc = pc]

ShuttingDown == \E t \in tasks : t.kind = "main"

\* ct.cancel(): no request is accepted from here on
Shutdown ==
    /\ ~ ShuttingDown
    /\ tasks' = tasks \cup {MainTask("wait")}
    /\ UNCHANGED <<db, nextId, world, now, faults, restarts, catalog, hist>>

\* tt.wait() returns, main returns
Exit ==
    /\ MainTask("wait") \in tasks
    /\ ~ \E t \in tasks : Tracked(t)
    /\ tasks' = {MainTask("exited")}
    /\ UNCHANGED <<db, nextId, world, now, faults, restarts, catalog, hist>>

\* the requests sent to the server that is later shut down
ShutdownRequests == {r \in Requests : r.challenge_id = 2 /\ r.team_id # None
                                      /\ r.lifetime = None}

ShutdownNext ==
    \/ ~ ShuttingDown /\ \E req \in ShutdownRequests : DeployReqSelect(req)
    \/ \E t \in tasks : DeployReqInsert(t)
    \/ \E t \in tasks : DeployResolve(t)
    \/ \E t \in tasks : DeployNetInspect(t)
    \/ \E t \in tasks : DeployNetCreate(t)
    \/ \E t \in tasks : DeployCtRemove(t)
    \/ \E t \in tasks : DeployCtCreate(t)
    \/ \E t \in tasks : DeployCtStart(t)
    \/ \E t \in tasks : DeployRouteDelete(t)
    \/ \E t \in tasks : DeployRouteAdd(t)
    \/ \E t \in tasks : DeployFinalize(t)
    \/ \E t \in tasks : DeployCommit(t)
    \/ \E t \in tasks : DeployAbort(t)
    \/ \E t \in tasks : CleanupStep(t)
    \/ ~ ShuttingDown /\ \E req \in ShutdownRequests : DestroyReq(req)
    \/ \E t \in tasks : DestroyBegin(t)
    \/ \E t \in tasks : DestroyRouteDelete(t)
    \/ \E t \in tasks : DestroyCtRemove(t)
    \/ \E t \in tasks : DestroyNetwork(t)
    \/ \E t \in tasks : DestroyCommit(t)
    \/ Shutdown
    \/ Exit
    \/ Tick

\* one run of the process from its start to its exit
ShutdownSpec == Init /\ [][ShutdownNext]_vars

(***************************************************************************)
(* The Instanced challenge with and without a team, across a restart, with *)
(* every spawned task scheduled until it ends.                             *)
(***************************************************************************)
PendingRequests == {r \in Requests : r.challenge_id = 2 /\ r.lifetime = None}

\* a step of a task that the runtime has spawned
TaskStep ==
    \E t \in tasks :
        \/ DeployReqInsert(t) \/ DeployResolve(t) \/ DeployNetInspect(t)
        \/ DeployNetCreate(t) \/ DeployCtRemove(t) \/ DeployCtCreate(t)
        \/ DeployCtStart(t)
        \/ DeployRouteDelete(t) \/ DeployRouteAdd(t) \/ DeployFinalize(t)
        \/ DeployCommit(t) \/ DeployAbort(t) \/ CleanupStep(t)
        \/ DestroyBegin(t) \/ DestroyRouteDelete(t) \/ DestroyCtRemove(t)
        \/ DestroyNetwork(t) \/ DestroyCommit(t)

PendingNext ==
    \/ \E req \in PendingRequests : DeployReqSelect(req)
    \/ \E t \in tasks : DeployReqInsert(t)
    \/ \E t \in tasks : DeployResolve(t)
    \/ \E t \in tasks : DeployNetInspect(t)
    \/ \E t \in tasks : DeployNetCreate(t)
    \/ \E t \in tasks : DeployCtRemove(t)
    \/ \E t \in tasks : DeployCtCreate(t)
    \/ \E t \in tasks : DeployCtStart(t)
    \/ \E t \in tasks : DeployRouteDelete(t)
    \/ \E t \in tasks : DeployRouteAdd(t)
    \/ \E t \in tasks : DeployFinalize(t)
    \/ \E t \in tasks : DeployCommit(t)
    \/ \E t \in tasks : DeployAbort(t)
    \/ \E t \in tasks : CleanupStep(t)
    \/ \E req \in PendingRequests : DestroyReq(req)
    \/ \E t \in tasks : DestroyBegin(t)
    \/ \E t \in tasks : DestroyRouteDelete(t)
    \/ \E t \in tasks : DestroyCtRemove(t)
    \/ \E t \in tasks : DestroyNetwork(t)
    \/ \E t \in tasks : DestroyCommit(t)
    \/ Restart
    \/ Tick

PendingSpec == Init /\ [][PendingNext]_vars /\ WF_vars(TaskStep)

(***************************************************************************)
(* A Static challenge with two containers, an http and two tcp exposures,  *)
(* deployed, torn down and reloaded with another bump_seed or host.        *)
(***************************************************************************)
StaticChall(bump_seed, host) ==
    [id |-> <<"c">>, strategy |-> "Static",
     container |-> Some([ct \in {"app", "db"} |->
                           [expose |-> IF ct = "app"
                                       THEN [p \in {1, 80} |->
                                               IF p = 80 THEN "http" ELSE "tcp"]
                                       ELSE Tcp(20)]]),
     host |-> host, bump_seed |-> bump_seed, instance_lifetime |-> None]

StaticBodies == {[k \in {"c"} |-> StaticChall(0, None)],
                 [k \in {"c"} |-> StaticChall(15, Some("h2"))],
                 [k \in {"c"} |-> StaticChall(0, Some("h9"))]}

StaticRequests == {r \in Requests : r.challenge_id = 3}

StaticInit ==
    /\ db = <<>>
    /\ nextId = 1
    /\ tasks = {}
    /\ containers = {}
    /\ networks = {}
    /\ routes = {}
    /\ now = 0
    /\ faults = 0
    /\ restarts = 0
    /\ challenge_data = [s \in {<<"c">>} |-> StaticChall(0, None)]
    /\ hist = Hist0
    /\ dir = WrittenDir([k \in {"c"} |-> challenge_data[<<k>>]])
    /\ ctasks = {}
    /\ cathist = [ops |-> 0, failed |-> 0, whole |-> {challenge_data}]

StaticNext ==
    \/ \E req \in StaticRequests : DeployReqSelect(req)
    \/ \E t \in tasks : DeployReqInsert(t)
    \/ \E t \in tasks : DeployResolve(t)
    \/ \E t \in tasks : DeployNetInspect(t)
    \/ \E t \in tasks : DeployNetCreate(t)
    \/ \E t \in tasks : DeployCtRemove(t)
    \/ \E t \in tasks : DeployCtCreate(t)
    \/ \E t \in tasks : DeployCtStart(t)
    \/ \E t \in tasks : DeployRouteDelete(t)
    \/ \E t \in tasks : DeployRouteAdd(t)
    \/ \E t \in tasks : DeployFinalize(t)
    \/ \E t \in tasks : DeployCommit(t)
    \/ \E t \in tasks : DeployAbort(t)
    \/ \E t \in tasks : CleanupStep(t)
    \/ \E req \in StaticRequests : DestroyReq(req)
    \/ \E t \in tasks : DestroyBegin(t)
    \/ \E t \in tasks : DestroyRouteDelete(t)
    \/ \E t \in tasks : DestroyCtRemove(t)
    \/ \E t \in tasks : DestroyNetwork(t)
    \/ \E t \in tasks : DestroyCommit(t)
    \/ \E body \in StaticBodies : LoadChallenges(body)

StaticSpec == StaticInit /\ [][StaticNext]_vars

(***************************************************************************)
(* The names of two deploys whose challenge ids are drawn from the         *)
(* identifier grammar: the steps that compute, create, record and remove   *)
(* by name.                                                                *)
(***************************************************************************)
\* the '-'-free pieces an id is made of; every one passes is_valid_id
NameTokens == {"b", "team", "1"}

RECURSIVE SeqsUpTo(_, _)
SeqsUpTo(S, n) ==
    IF n = 0 THEN {<<>>}
    ELSE LET shorter == SeqsUpTo(S, n - 1)
         IN shorter \cup {Append(q, x) : q \in shorter, x \in S}

NameSlugs == SeqsUpTo(NameTokens, MaxSlugLen) \ {<<>>}

\* (slug, strategy, team_id); a Static deployment has no team
NameSlots ==
    {[id |-> id, strategy |-> "Static", team_id |-> None] : id \in NameSlugs}
    \cup {[id |-> id, strategy |-> "Instanced", team_id |-> Some(1)] : id \in NameSlugs}

SlotOf(t) == [id |-> SpecOf(t).id, strategy |-> SpecOf(t).strategy,
              team_id |-> t.row.team_id]

\* the deploy of row i for a slot, as deploy_challenge has it once the
\* challenge is resolved
NameTask(i, slot) ==
    LET chall == Chall(slot.id, slot.strategy, Http80, None, 0, None)
        row == [NoRow EXCEPT !.id = i, !.challenge_id = i, !.team_id = slot.team_id]
    IN [NewDeployTask(i, row, 1) EXCEPT !.pc = "net_inspect",
                                        !.spec = Some(chall),
                                        !.todo = DOMAIN ContainersOf(chall)]

NameInit ==
    /\ \E s1 \in NameSlots : \E s2 \in NameSlots \ {s1} :
          /\ tasks = {NameTask(1, s1), NameTask(2, s2)}
          /\ challenge_data = [k \in {s1.id, s2.id} |->
                                 IF k = s1.id THEN SpecOf(NameTask(1, s1))
                                 ELSE SpecOf(NameTask(2, s2))]
    /\ db = [i \in {1, 2} |-> (CHOOSE t \in tasks : t.tid = i).row]
    /\ nextId = 3
    /\ containers = {}
    /\ networks = {}
    /\ routes = {}
    /\ now = 0
    /\ faults = 0
    /\ restarts = 0
    /\ hist = Hist0
    /\ dir = WrittenDir([k \in {} |-> 0])
    /\ ctasks = {}
    /\ cathist = [ops |-> 0, failed |-> 0, whole |-> {challenge_data}]

NameNext ==
    \/ \E t \in tasks : DeployNetInspect(t)
    \/ \E t \in tasks : DeployNetCreate(t)
    \/ \E t \in tasks : DeployCtRemove(t)
    \/ \E t \in tasks : DeployCtCreate(t)
    \/ \E t \in tasks : DeployAbort(t)
    \/ \E t \in tasks : CleanupStep(t)

NameSpec == NameInit /\ [][NameNext]_vars

(***************************************************************************)
(* The claims.                                                             *)
(***************************************************************************)
\* the teardown tasks that end in this step (a restart ends none: it kills)
EndingTeardowns ==
    IF restarts' = restarts
    THEN {t \in tasks : t.kind = "destroy" /\ t \notin tasks'
                        /\ ~ \E u \in tasks' : /\ u.kind = "destroy"
                                               /\ u.origin = t.origin
                                               /\ u.tid = t.tid}
    ELSE {}

\* C1: concurrent deploy requests on one (challenge_id, team_id) pair insert
\* one row between them: in every reachable state at most one row of a pair
\* has destroyed_at NULL.
C1_OneActiveRowPerPair ==
    \A i, j \in DOMAIN db :
        (/\ db[i].destroyed_at = None /\ db[j].destroyed_at = None
         /\ PairOf(db[i]) = PairOf(db[j])) => i = j

\* C2: after a deploy attempt has failed its row is gone, and once the
\* cleanup of its guard has run no container and no network created by the
\* attempt is left on the host.
C2_FailedDeployLeavesNothing ==
    \A id \in hist.failed :
        /\ id \notin DOMAIN db
        /\ id \in hist.cleaned =>
              /\ ~ \E c \in containers : c.owner = id
              /\ ~ \E n \in networks : n.owner = id

\* C3: the row a successful deploy commits has deployed = true, data and no
\* destroyed_at; and every committed row with deployed = true and
\* destroyed_at NULL has data.
C3_DeployedHasData ==
    /\ [](\A i \in DOMAIN db :
            (db[i].deployed /\ db[i].destroyed_at = None) => db[i].data # None)
    /\ [][\A id \in hist'.done \ hist.done :
            /\ id \in DOMAIN db'
            /\ db'[id].deployed
            /\ db'[id].data # None
            /\ db'[id].destroyed_at = None]_vars

C3_Witness ==
    \E id \in hist.done : /\ id \in DOMAIN db
                          /\ db[id].deployed
                          /\ db[id].data # None
                          /\ db[id].destroyed_at = None

Destroyed(rows, id) ==
    id \in DOMAIN rows /\ rows[id].destroyed_at # None /\ rows[id].data = None

\* the same task one step later
SameTask(t, u) == u.kind = t.kind /\ u.origin = t.origin /\ u.tid = t.tid

C6_TeardownDecidedOnCurrentRow ==
    [][\A t \in tasks :
          (/\ faults' = 0
           /\ t.kind = "destroy" /\ t.pc = "sleep"
           /\ \E u \in tasks' : SameTask(t, u) /\ u.pc # "sleep")
             => /\ t.row.id \in DOMAIN db
                /\ db[t.row.id].destroyed_at = None
                /\ db[t.row.id].deployed]_vars

\* C7: no route added by a failed deploy attempt stays registered once the
\* cleanup of its Proxy Guard is over.
C7_FailedDeployLeavesNoRoute ==
    \A id \in hist.failed :
        (/\ restarts = 0
         /\ ~ \E t \in tasks : t.kind = "cleanup" /\ t.pc = "caddy" /\ t.row.id = id)
           => ~ \E r \in routes : r.owner = id

\* C8: a deployment whose lease has run out is reaped: while its row is
\* deployed and not destroyed, a lease-driven teardown task for it exists.
C8_ExpiredLeaseHasReaper ==
    \A i \in DOMAIN db :
        (/\ db[i].deployed /\ db[i].destroyed_at = None
         /\ db[i].expired_at # None /\ Unwrap(db[i].expired_at) <= now)
           => \E t \in tasks : /\ t.kind = "destroy"
                               /\ t.origin \in {"lease", "sweep"}
                               /\ t.row.id = i

\* C9: at startup every row with destroyed_at NULL and expired_at set gets a
\* teardown task that fires at expired_at, or now when expired_at is past,
\* and is given the row as deployed and not destroyed; no other task starts.
C9_StartupSweep ==
    [][restarts' # restarts =>
          /\ \A i \in DOMAIN db' :
                (db'[i].destroyed_at = None /\ db'[i].expired_at # None)
                   => \E t \in tasks' :
                         /\ t.kind = "destroy" /\ t.pc = "sleep" /\ t.row = db'[i]
                         /\ t.row.deployed
                         /\ t.fireAt = IF Unwrap(db'[i].expired_at) > now'
                                       THEN Unwrap(db'[i].expired_at) ELSE now'
          /\ \A t \in tasks' :
                /\ t.kind = "destroy"
                /\ t.row.id \in DOMAIN db'
                /\ db'[t.row.id].destroyed_at = None
                /\ db'[t.row.id].expired_at # None]_vars

\* a lease that ran out while the process was down, scheduled at once
C9_Witness ==
    /\ restarts = 1
    /\ \E t \in tasks : /\ t.kind = "destroy" /\ t.origin = "sweep" /\ t.pc = "sleep"
                        /\ Unwrap(t.row.expired_at) < now
                        /\ t.fireAt = now

\* C10: a second destroy request is a no-op: the teardown it spawns, run on
\* a row that is already destroyed, changes no row.
C10_SecondDestroyIsNoOp ==
    [][\A t \in EndingTeardowns :
          (t.origin = "request" /\ Destroyed(db, t.row.id)) => db' = db]_vars

\* C11: whatever a reader of the catalog reads while reloads and loads run
\* is a catalog that was whole on disk: the one the server started with or
\* the one a load wrote, never a part of one or a mix of two.
C11_ReadersSeeWholeCatalog == challenge_data \in cathist.whole

\* C12: a reload or a load-from-request that fails in parsing or validation
\* leaves the in-memory catalog as it was.
C12_FailedLoadKeepsSnapshot ==
    [][cathist'.failed # cathist.failed => challenge_data' = challenge_data]_vars

\* a load that failed after it had rewritten the directory
C12_Witness ==
    /\ cathist.failed > 0
    /\ ctasks = {}
    /\ ~ load_challenges_from_dir(dir).ok
    /\ challenge_data = Catalog

\* C13: in every catalog that loaded, no two Static TCP exposures resolve to
\* the same host and the same computed static port.
C13_NoStaticPortCollision ==
    \A s1, s2 \in DOMAIN challenge_data :
        \A e1 \in StaticTcpExposures(challenge_data[s1]) :
            \A e2 \in StaticTcpExposures(challenge_data[s2]) :
                (/\ <<s1, e1>> # <<s2, e2>>
                 /\ ResolvedHost(challenge_data[s1]) = ResolvedHost(challenge_data[s2]))
                   => UsedPortKey(challenge_data[s1], e1)[2]
                         # UsedPortKey(challenge_data[s2], e2)[2]

\* C14: every slug of a catalog that loaded matches the identifier grammar.
C14_LoadedSlugsAreValid == \A s \in DOMAIN challenge_data : is_valid_id(s)

\* C15: a row leaves the table only in the abort of its own failed deploy,
\* and never once it has been committed with deployed = true; a row that is
\* committed with deployed = true stays in the table with deployed = true.
C15_DeletedOnlyByFailedApply ==
    [][/\ \A i \in DOMAIN db \ DOMAIN db' :
             /\ ~ db[i].deployed
             /\ \E t \in tasks \ tasks' :
                   t.kind = "deploy" /\ t.pc = "err" /\ t.row.id = i
       /\ \A i \in DOMAIN db :
             db[i].deployed => (i \in DOMAIN db' /\ db'[i].deployed)]_vars

\* one row was deleted by its failed deploy and another ended destroyed
C15_Witness ==
    /\ \E id \in hist.failed : id \notin DOMAIN db
    /\ \E i \in DOMAIN db : Destroyed(db, i) /\ db[i].deployed

\* what a deploy task has done of its spec: every container created and
\* started by the attempt and entered in deploy_data, every http route added
Applied(t) ==
    \A ct \in DOMAIN ContainersOf(SpecOf(t)) :
        /\ \E d \in t.deploy_data : d.ct = ct /\ d.container_id = CtName(t, ct)
        /\ \E k \in 1..Len(t.guardC) : t.guardC[k] = CtName(t, ct)
        /\ \A p \in HttpPorts(Mappings(SpecOf(t), t.row, ct)) :
              \E k \in 1..Len(t.caddyR) :
                  t.caddyR[k] = RouteHost(MappingOf(Mappings(SpecOf(t), t.row, ct), p).addr)

C17_DbErrorLeavesNoPartialState ==
    [][\A t \in tasks \ tasks' :
          (faults' # faults /\ ~ \E u \in tasks' : SameTask(t, u) /\ u.row = t.row)
             => /\ (t.kind = "deploy" /\ t.pc \in {"begin", "finalize", "commit"})
                      => ~ \E i \in ActiveRows(db', PairOf(t.row)) : ~ db'[i].deployed
                /\ (t.kind = "destroy" /\ t.pc = "sleep") => db' = db]_vars

\* C18: a teardown that is accepted acts on the recorded data of its row:
\* when it commits (in a run in which no call has failed) every container
\* recorded in data has been removed, every http route recorded for it has
\* been deleted and the network of the deployment has been removed, also
\* when the catalog was replaced between the deploy and the teardown.
C18_TeardownActsOnRecordedData ==
    [][\A t \in EndingTeardowns :
          (faults' = 0 /\ t.pc = "commit" /\ t.row.data # None)
             => /\ \A d \in Unwrap(t.row.data) :
                      /\ ~ \E c \in containers' :
                              c.name = d.container_id /\ c.owner = t.row.id
                      /\ \A p \in HttpPorts(d.ports) :
                            ~ \E r \in routes' :
                                 /\ r.host = RouteHost(MappingOf(d.ports, p).addr)
                                 /\ r.owner = t.row.id
                /\ ~ \E n \in networks' : n.owner = t.row.id]_vars

\* C19: the deploy task gets the lifetime of the request, or the server
\* default when the request has none; at finalize expired_at is NULL for a
\* Static challenge and now + lifetime for an Instanced one, the lifetime
\* being the spec's instance lifetime if present and the task's otherwise; no
\* row of a Static challenge has expired_at set.
C19_ExpiredAtFromLifetime ==
    /\ [][\A h \in tasks \ tasks' : \A u \in tasks' \ tasks :
             (h.kind = "handler" /\ u.kind = "deploy")
                => u.lifetime = IF h.req.lifetime # None THEN Unwrap(h.req.lifetime)
                                ELSE DefaultLifetime]_vars
    /\ [][\A t \in tasks : \A u \in tasks' :
             (/\ t.kind = "deploy" /\ t.pc = "finalize"
              /\ SameTask(t, u) /\ u.pc = "commit")
                => Unwrap(u.txw).expired_at =
                      IF SpecOf(t).strategy = "Static" THEN None
                      ELSE IF SpecOf(t).instance_lifetime # None
                      THEN Some(now + Unwrap(SpecOf(t).instance_lifetime))
                      ELSE Some(now + t.lifetime)]_vars
    /\ [](\A i \in DOMAIN db :
             (/\ ChallengePublicId(db[i].challenge_id) \in DOMAIN challenge_data
              /\ challenge_data[ChallengePublicId(db[i].challenge_id)].strategy = "Static")
                => db[i].expired_at = None)

\* committed leases of all three origins: the spec's lifetime before the
\* catalog was replaced, the request's and the default after it
C19_Witness ==
    /\ \E i \in DOMAIN db :
          db[i].deployed /\ db[i].destroyed_at # None /\ db[i].expired_at = Some(1)
    /\ \E i \in DOMAIN db :
          /\ db[i].deployed /\ db[i].destroyed_at = None
          /\ db[i].expired_at \in {Some(now + 3), Some(now + DefaultLifetime)}
    /\ ChallengePublicId(2) \in DOMAIN challenge_data
    /\ challenge_data[ChallengePublicId(2)].instance_lifetime = None

\* C20: strategy and team agree on every deployment: a row that is deployed
\* for a Static challenge has team_id NULL and a row that is deployed for an
\* Instanced challenge has a team_id.
C20_StrategyAndTeamAgree ==
    \A i \in DOMAIN db :
        (db[i].deployed /\ ChallengePublicId(db[i].challenge_id) \in DOMAIN Catalog)
           => LET strategy == Catalog[ChallengePublicId(db[i].challenge_id)].strategy
              IN /\ strategy = "Static" => db[i].team_id = None
                 /\ strategy = "Instanced" => db[i].team_id # None

\* C21: on graceful shutdown every deploy or teardown task that is in
\* flight, a lease-driven teardown that has started and the cleanup of an
\* abandoned guard included, has run to completion when the process exits:
\* at the exit only timers that have not fired are left.
C21_ShutdownDrainsTasks ==
    [][(MainTask("wait") \in tasks /\ MainTask("exited") \in tasks')
          => \A t \in tasks :
                \/ t.kind = "main"
                \/ t.kind = "destroy" /\ t.pc = "sleep"]_vars

\* C22: the response for a row (the row the deploy handler has inserted, any
\* committed row for the get handler) is sanitized: every container_id of
\* its data is the sentinel and no name of a container appears in it, while
\* deployed, the timestamps and the ports of every container are those of
\* the row.
C22_ResponsesAreSanitized ==
    \A i \in DOMAIN db :
        LET r == Response(db[i])
        IN /\ r.deployed = db[i].deployed
           /\ r.expired_at = db[i].expired_at
           /\ r.destroyed_at = db[i].destroyed_at
           /\ (r.data = None) <=> (db[i].data = None)
           /\ db[i].data # None =>
                 /\ \A d \in Unwrap(db[i].data) :
                       \E x \in Unwrap(r.data) : x.ct = d.ct /\ x.ports = d.ports
                 /\ \A x \in Unwrap(r.data) :
                       /\ x.container_id = Sentinel
                       /\ x.container_id \notin {c.name : c \in containers}
                       /\ \E d \in Unwrap(db[i].data) : x.ct = d.ct /\ x.ports = d.ports

\* a committed row that records the name of a container that is on the host
C22_Witness ==
    \E i \in DOMAIN db :
        /\ db[i].data # None
        /\ \E d \in Unwrap(db[i].data) : \E c \in containers : c.name = d.container_id
        /\ db[i].expired_at # None
        /\ sanitize(db[i]) # db[i]

C24_TeardownDeletesTheHostAdded ==
    /\ \A i \in DOMAIN db :
          db[i].data # None =>
             \A d \in Unwrap(db[i].data) : \A m \in d.ports :
                m.type = "http" =>
                   m.addr = calculate_subdomain(ChallengePublicId(db[i].challenge_id),
                                                PublicTeamId(db[i]), m.port)
    /\ \A t \in tasks :
          /\ (t.kind = "deploy" /\ t.pc = "route_add") =>
                LET m == MappingOf(Mappings(SpecOf(t), t.row, t.cur), t.curp)
                IN HostOf(t, t.curp) = m.addr \o m.base
          /\ (t.kind = "destroy" /\ t.pc = "td_route") =>
                \A p \in t.ptodo :
                   LET m == MappingOf(UNION {d.ports : d \in DataOf(t.row, t.cur)}, p)
                   IN TdHost(t, p) = m.addr \o m.base

\* C25: when write_challenges_to_dir has returned for a load request, no
\* *.toml file from before the request is left, the directory holds one
\* {key}.toml for every entry of the request map with the text of that
\* entry and no other *.toml file, and every other file is as it was.
C25_LoadReplacesTheDirectory ==
    /\ \A t \in ctasks :
          /\ (t.kind = "load" /\ t.pc = "create" /\ t.todo = DOMAIN t.body) =>
                GlobToml(dir) = {}
          /\ (t.kind = "load" /\ t.pc = "finish") =>
                /\ \A k \in DOMAIN t.body :
                      k \in DOMAIN dir /\ dir[k] = toml_to_string(t.body[k])
                /\ Cardinality(GlobToml(dir)) = Cardinality(DOMAIN t.body)
    /\ DOMAIN dir \ GlobToml(dir) = {"notes.txt"}
    /\ dir["notes.txt"] = OtherFile

\* C26: when row R has been destroyed and its pair deployed again, a step
\* of a teardown task made for R removes no container, no network and no
\* route of a row inserted after R.
C26_TeardownSparesLaterRows ==
    [][\A t \in tasks :
          (/\ t.kind = "destroy"
           /\ t.pc \in {"td_route", "td_rm", "td_net"}
           /\ t \notin tasks'
           /\ restarts' = restarts
           /\ Destroyed(db, t.row.id))
             => /\ \A c \in containers \ containers' : c.owner <= t.row.id
                /\ \A n \in networks \ networks' : n.owner <= t.row.id
                /\ \A r \in routes \ routes' : r.owner <= t.row.id]_vars

\* C27: a step of the guard cleanup of a failed attempt, whose row has been
\* deleted, removes no container and no network that an attempt for a row
\* inserted later has created.
C27_CleanupSparesLaterAttempts ==
    [][\A t \in tasks :
          (/\ t.kind = "cleanup"
           /\ t \notin tasks'
           /\ restarts' = restarts
           /\ t.row.id \notin DOMAIN db)
             => /\ \A c \in containers \ containers' : c.owner <= t.row.id
                /\ \A n \in networks \ networks' : n.owner <= t.row.id]_vars

\* C28: every row that the deploy handler has inserted is later deployed
\* or deleted, also when its task panics or the process is restarted.
C28_PendingRowsResolve ==
    \A id \in 1..MaxRows :
        [](id \in DOMAIN db => <>(id \notin DOMAIN db \/ db[id].deployed))

C30_GuardCleanupInReverse ==
    [][\A t \in tasks :
          (t.kind = "cleanup" /\ t.pc = "docker" /\ t \notin tasks'
              /\ restarts' = restarts)
             => /\ t.guardC # <<>> =>
                      /\ networks' = networks
                      /\ \A c \in containers \ containers' : c.name = Last(t.guardC)
                      /\ faults' = faults =>
                            ~ \E c \in containers' : c.name = Last(t.guardC)
                      /\ \/ \E u \in tasks' : /\ SameTask(t, u) /\ u.pc = "docker"
                                               /\ u.guardC = Front(t.guardC)
                                               /\ u.guardN = t.guardN
                         \/ /\ Len(t.guardC) = 1 /\ t.guardN = <<>>
                            /\ ~ \E u \in tasks' : SameTask(t, u) /\ u.pc = "docker"
                /\ t.guardC = <<>> =>
                      /\ containers' = containers
                      /\ \A n \in networks \ networks' : n.name = Last(t.guardN)
                      /\ faults' = faults =>
                            ~ \E n \in networks' : n.name = Last(t.guardN)
                      /\ \/ \E u \in tasks' : /\ SameTask(t, u) /\ u.pc = "docker"
                                               /\ u.guardC = <<>>
                                               /\ u.guardN = Front(t.guardN)
                         \/ /\ Len(t.guardN) = 1
                            /\ ~ \E u \in tasks' : SameTask(t, u) /\ u.pc = "docker"]_vars

\* a removal of the cleanup has failed and the cleanup has gone on: no
\* container is left in its records, a container of its attempt is still on
\* the host, and its network is the next to go
C30_Witness ==
    \E t \in tasks :
        /\ t.kind = "cleanup" /\ t.pc = "docker"
        /\ t.guardC = <<>> /\ Len(t.guardN) = 1
        /\ \E c \in containers : c.owner = t.row.id
        /\ \E n \in networks : n.owner = t.row.id /\ n.name = Last(t.guardN)

\* C31: a deploy task that ends after its guards were committed starts no
\* cleanup; one that ends on any other way starts exactly one cleanup of its
\* Daemon Guard when that guard has a record, and exactly one cleanup of its
\* Proxy Guard when that guard has a record; no cleanup task belongs to a
\* row whose deploy was committed.
C31_GuardsCommitOrCleanUpOnce ==
    [][/\ \A t \in tasks :
            (/\ t.kind = "deploy"
             /\ restarts' = restarts
             /\ ~ \E u \in tasks' : u.kind = "deploy" /\ u.tid = t.tid)
               => LET new == {c \in tasks' \ tasks :
                                c.kind = "cleanup" /\ c.row.id = t.row.id}
                      docker == {c \in new : c.pc = "docker"}
                      caddy == {c \in new : c.pc = "caddy"}
                  IN IF t.pc = "commit"
                     THEN new = {}
                     ELSE /\ Cardinality(docker) =
                               IF t.guardC # <<>> \/ t.guardN # <<>> THEN 1 ELSE 0
                          /\ \A c \in docker :
                                c.guardC = t.guardC /\ c.guardN = t.guardN
                          /\ Cardinality(caddy) = IF t.caddyR # <<>> THEN 1 ELSE 0
                          /\ \A c \in caddy : c.caddyR = t.caddyR
       /\ \A c \in tasks' : c.kind = "cleanup" => c.row.id \notin hist'.done]_vars

C33_LeaseTeardownNotBeforeExpiry ==
    [][\A t \in tasks :
          (/\ t.kind = "destroy" /\ t.origin \in {"lease", "sweep"}
           /\ restarts' = restarts)
             => /\ \A u \in tasks' :
                      (u.kind = "destroy" /\ u.tid = t.tid /\ u.origin = t.origin
                       /\ u.txw # t.txw /\ Unwrap(u.txw) # NoRow)
                         => \A d \in Unwrap(u.txw).destroyed_at :
                                \A x \in t.row.expired_at : d >= x
                /\ (t \notin tasks' /\ db' # db)
                      => \A d \in db'[t.row.id].destroyed_at :
                             \A x \in t.row.expired_at \cup db'[t.row.id].expired_at :
                                 d >= x]_vars

\* a lease teardown that slept for a lifetime has marked its row in its
\* transaction
C33_Witness ==
    \E t \in tasks :
        /\ t.kind = "destroy" /\ t.origin = "lease" /\ t.pc = "commit"
        /\ Unwrap(t.txw) # NoRow
        /\ \E d \in Unwrap(t.txw).destroyed_at :
              d >= 1 /\ t.row.expired_at = {d}

\* C34: a lease teardown task exists only for a row whose finalize is in the
\* table: the row is there and is deployed with the expired_at the task
\* was given, or has been destroyed since.
C34_ReaperOnlyAfterCommit ==
    \A t \in tasks :
        (t.kind = "destroy" /\ t.origin = "lease")
          => /\ t.row.id \in DOMAIN db
             /\ db[t.row.id].deployed
             /\ \/ db[t.row.id].expired_at = t.row.expired_at
                \/ IsSome(db[t.row.id].destroyed_at)

\* C35: a row whose destroyed_at is set in the table keeps every field from
\* then on.
C35_DestroyedRowIsFrozen ==
    [][\A i \in DOMAIN db \cap DOMAIN db' :
          IsSome(db[i].destroyed_at) => db'[i] = db[i]]_vars

\* C36: two deploys of different slots (slug, strategy, team_id) never share
\* a name: no container or network name a guard has on record is a name
\* the deploy of another slot computes.
C36_NamesInjectiveOverSlots ==
    \A t \in tasks : \A u \in tasks :
        (/\ t.kind \in {"deploy", "cleanup"} /\ u.kind = "deploy"
         /\ IsSome(t.spec) /\ IsSome(u.spec) /\ SlotOf(t) # SlotOf(u))
          => /\ \A i \in 1..Len(t.guardN) : t.guardN[i] # NetName(u)
             /\ \A i \in 1..Len(t.guardC) :
                   \A ct \in DOMAIN ContainersOf(SpecOf(u)) :
                       t.guardC[i] # CtName(u, ct)

\* C37: once every reload and load has run to its end, the catalog in memory
\* is the catalog the directory parses to, whenever the directory parses.
C37_CatalogIsFinalDirectory ==
    (/\ ctasks = {} /\ cathist.ops > 0
     /\ load_challenges_from_dir(dir).ok)
      => challenge_data = load_challenges_from_dir(dir).m

\* C38: the loader rejects a directory in which two Static TCP exposures of
\* challenges that deploy to the same host (host unset deploys to "default")
\* compute the same static port.
C38_CollisionCheckUsesResolvedHost ==
    LET res == load_challenges_from_dir(dir)
    IN res.ok =>
         \A s1, s2 \in DOMAIN res.m :
             \A e1 \in StaticTcpExposures(res.m[s1]) :
                 \A e2 \in StaticTcpExposures(res.m[s2]) :
                     (/\ <<s1, e1>> # <<s2, e2>>
                      /\ UsedPortKey(res.m[s1], e1)[2] = UsedPortKey(res.m[s2], e2)[2])
                        => ResolvedHost(res.m[s1]) # ResolvedHost(res.m[s2])

\* C39: a deploy whose challenge names a host without a keychain entry, or
\* is Instanced while the row has no team, takes the path of a failed
\* deploy, the one that reports the error and deletes the pending row.
C39_InconsistentInputsFailCleanly ==
    [][\A t \in tasks :
          LET slug == ChallengePublicId(t.row.challenge_id)
          IN (/\ t.kind = "deploy" /\ t.pc = "begin" /\ t \notin tasks'
              /\ restarts' = restarts /\ faults' = faults
              /\ slug \in DOMAIN challenge_data
              /\ challenge_data[slug].container # None
              /\ \/ KeychainPanics(challenge_data[slug])
                 \/ NamePanics(challenge_data[slug], t.row))
               => \E u \in tasks' :
                     u.kind = "deploy" /\ u.tid = t.tid /\ u.pc = "err"]_vars

\* C40: a deploy reads the catalog once, at its second step, and every
\* later step works on that copy whatever the catalog has become: the copy
\* never changes, the containers created are containers of the copy, named
\* by its id and strategy, the ports and the proxy base recorded for a
\* container are those of the copy's exposures, bump_seed and host, and
\* expired_at is computed from its strategy and lifetime.
C40_DeployWorksOnOneCatalogCopy ==
    [][\A t \in tasks : \A u \in tasks' :
          (/\ t.kind = "deploy" /\ u.kind = "deploy" /\ u.tid = t.tid /\ u # t
           /\ restarts' = restarts)
             => /\ IsSome(t.spec) => u.spec = t.spec
                /\ (t.spec = None /\ IsSome(u.spec)) =>
                      /\ t.pc = "begin"
                      /\ u.spec = Some(challenge_data[ChallengePublicId(t.row.challenge_id)])
                      /\ u.todo = DOMAIN ContainersOf(SpecOf(u))
                /\ \A c \in containers' \ containers :
                      \E ct \in DOMAIN ContainersOf(SpecOf(t)) :
                          c.name = calculate_container_name(SpecOf(t).id,
                                       SpecOf(t).strategy, ct, t.row.team_id)
                /\ \A d \in u.deploy_data \ t.deploy_data :
                      /\ d.ct \in DOMAIN ContainersOf(SpecOf(t))
                      /\ {m.port : m \in d.ports}
                            = DOMAIN ContainersOf(SpecOf(t))[d.ct].expose
                      /\ \A m \in d.ports :
                            /\ m.type = ContainersOf(SpecOf(t))[d.ct].expose[m.port]
                            /\ m.base = HostKeychains[ResolvedHost(SpecOf(t))].caddy.base
                            /\ (m.type = "tcp" /\ SpecOf(t).strategy = "Static") =>
                                  m.addr = <<calculate_static_tcp_port(SpecOf(t).id,
                                                 d.ct, m.port, SpecOf(t).bump_seed)>>
                /\ (t.pc = "finalize" /\ u.pc = "commit") =>
                      Unwrap(u.txw).expired_at
                         = ExpirationTime(SpecOf(t), t.lifetime, now)]_vars

\* a deploy that has finalized on its copy after a load has replaced the
\* catalog with one of another bump_seed and host
C40_Witness ==
    \E t \in tasks :
        /\ t.kind = "deploy" /\ t.pc = "commit" /\ IsSome(t.spec)
        /\ LET cur == challenge_data[ChallengePublicId(t.row.challenge_id)]
           IN /\ cur.bump_seed # SpecOf(t).bump_seed
              /\ cur.host # SpecOf(t).host
        /\ \E d \in Unwrap(Unwrap(t.txw).data) : \E m \in d.ports :
              m.type = "tcp"

====
